---- MODULE Spec2Model ----
(***************************************************************************)
(* Model of the registry acquisition pipeline of go-shellify:              *)
(* internal/registry (Client, GitClient, StructureValidator,               *)
(* URLValidator).                                                          *)
(*                                                                         *)
(* A Go string is a sequence of one-character strings; "xFF" stands for a  *)
(* byte that is not valid UTF-8 and "uFFFD" for the replacement rune.      *)
(* Error values are plain strings, "" is nil.                              *)
(***************************************************************************)
EXTENDS Integers, Sequences, FiniteSets, TLC

----------------------------------------------------------------------------
(* Character classes used by the regular expressions of the validators.    *)

Digits == {"0", "1", "2", "3", "4", "5", "6", "7", "8", "9"}

LowerLetters == {"a", "b", "c", "d", "e", "f", "g", "h", "i", "j", "k", "l", "m",
                 "n", "o", "p", "q", "r", "s", "t", "u", "v", "w", "x", "y", "z"}

UpperSeq == <<"A", "B", "C", "D", "E", "F", "G", "H", "I", "J", "K", "L", "M",
              "N", "O", "P", "Q", "R", "S", "T", "U", "V", "W", "X", "Y", "Z">>

LowerSeq == <<"a", "b", "c", "d", "e", "f", "g", "h", "i", "j", "k", "l", "m",
              "n", "o", "p", "q", "r", "s", "t", "u", "v", "w", "x", "y", "z">>

UpperLetters == {UpperSeq[i] : i \in 1..Len(UpperSeq)}

Spaces == {" "}

\* [a-z0-9-]
NameChars == LowerLetters \cup Digits \cup {"-"}

\* [0-9A-Za-z-]
SemverIdChars == Digits \cup LowerLetters \cup UpperLetters \cup {"-"}

\* strings.ToLower on one character
ToLowerChar(c) ==
    IF c \in UpperLetters
      THEN LowerSeq[CHOOSE i \in 1..Len(UpperSeq) : UpperSeq[i] = c]
      ELSE c

\* strings.ToLower
ToLower(s) == [i \in 1..Len(s) |-> ToLowerChar(s[i])]

\* strings.TrimSpace(s) == "" : the string has only white space
IsBlank(s) == \A i \in 1..Len(s) : s[i] \in Spaces

\* s[a..b], empty when a > b
Slice(s, a, b) == [i \in 1..(b - a + 1) |-> s[a + i - 1]]

AllIn(s, chars) == \A i \in 1..Len(s) : s[i] \in chars

\* [0-9]+
IsNumber(s) == Len(s) >= 1 /\ AllIn(s, Digits)

\* [0-9A-Za-z-]+(?:\.[0-9A-Za-z-]+)*
IsDottedIds(s) ==
    /\ Len(s) >= 1
    /\ AllIn(s, SemverIdChars \cup {"."})
    /\ s[1] # "."
    /\ s[Len(s)] # "."
    /\ \A i \in 1..(Len(s) - 1) : ~(s[i] = "." /\ s[i + 1] = ".")

\* ([0-9]+)\.([0-9]+)\.([0-9]+)
IsSemverCore(s) ==
    \E p \in 1..Len(s) : \E q \in 1..Len(s) :
        /\ p < q
        /\ s[p] = "."
        /\ s[q] = "."
        /\ IsNumber(Slice(s, 1, p - 1))
        /\ IsNumber(Slice(s, p + 1, q - 1))
        /\ IsNumber(Slice(s, q + 1, Len(s)))

\* (?:-(ids))?(?:\+(ids))?  matched against the rest of the version
IsSemverTail(r) ==
    \/ Len(r) = 0
    \/ /\ Len(r) >= 1
       /\ r[1] = "-"
       /\ IsDottedIds(Slice(r, 2, Len(r)))
    \/ /\ Len(r) >= 1
       /\ r[1] = "+"
       /\ IsDottedIds(Slice(r, 2, Len(r)))
    \/ /\ Len(r) >= 1
       /\ r[1] = "-"
       /\ \E k \in 2..Len(r) :
            /\ r[k] = "+"
            /\ IsDottedIds(Slice(r, 2, k - 1))
            /\ IsDottedIds(Slice(r, k + 1, Len(r)))

\* the error results of the validators; "" is nil
Ok == ""

validateSemanticVersion(version) ==
    IF \E k \in 0..Len(version) :
          /\ IsSemverCore(Slice(version, 1, k))
          /\ IsSemverTail(Slice(version, k + 1, Len(version)))
      THEN Ok
      ELSE "does not follow semantic versioning"

validateRegistryName(name) ==
    IF ~(Len(name) >= 1 /\ AllIn(name, NameChars))
      THEN "registry name must contain only lowercase letters, numbers, and hyphens"
    ELSE IF Len(name) < 3 THEN "registry name must be at least 3 characters long"
    ELSE IF Len(name) > 50 THEN "registry name must be 50 characters or less"
    ELSE Ok

validateModuleName(name) ==
    IF ~(Len(name) >= 1 /\ AllIn(name, NameChars))
      THEN "module name must contain only lowercase letters, numbers, and hyphens"
    ELSE IF Len(name) < 2 THEN "module name must be at least 2 characters long"
    ELSE IF Len(name) > 30 THEN "module name must be 30 characters or less"
    ELSE Ok

supportedShells ==
    { <<"b", "a", "s", "h">>, <<"z", "s", "h">>, <<"f", "i", "s", "h">>,
      <<"p", "o", "w", "e", "r", "s", "h", "e", "l", "l">>, <<"s", "h">> }

validateShell(shell) ==
    IF ToLower(shell) \in supportedShells THEN Ok ELSE "unsupported shell"

validTypes ==
    { <<"a", "l", "i", "a", "s", "e", "s">>,
      <<"f", "u", "n", "c", "t", "i", "o", "n", "s">>,
      <<"e", "x", "p", "o", "r", "t", "s">>,
      <<"s", "c", "r", "i", "p", "t", "s">>,
      <<"c", "o", "n", "f", "i", "g">> }

validateModuleType(moduleType) ==
    IF ToLower(moduleType) \in validTypes THEN Ok ELSE "unsupported module type"

----------------------------------------------------------------------------
(* A working tree, as the validators see it.                               *)
(*   index    : "missing" | "unreadable" | "badjson" | "ok" (index.json)   *)
(*   name, description, version : the decoded RegistryIndex fields         *)
(*              (an absent key decodes to the empty string)                *)
(*   modules  : module key -> Module (name, description, version, path,    *)
(*              shell)                                                     *)
(*   dirs     : path -> what the tree holds at that path:                  *)
(*              entry "dir" | "file", manifest "missing" | "unreadable" |  *)
(*              "badjson" | "ok" (module.json), and for each key of the    *)
(*              decoded JSON object its kind "absent" | "other" | "string" *)
(*              and, for type, the string value                            *)
(*   modulesDir : "absent" | "dir" | "file" | "noaccess" (<root>/modules)  *)
(***************************************************************************)

\* json value of a key of module.json
JAbsent == [kind |-> "absent", val |-> <<>>]

JOther == [kind |-> "other", val |-> <<>>]

JString(s) == [kind |-> "string", val |-> s]

validateModuleJSON(d) ==
    IF d.manifest = "unreadable" THEN "failed to read module.json"
    ELSE IF d.manifest = "badjson" THEN "invalid JSON format"
    ELSE IF d.name.kind = "absent" THEN "missing required field 'name'"
    ELSE IF d.description.kind = "absent" THEN "missing required field 'description'"
    ELSE IF d.type.kind = "absent" THEN "missing required field 'type'"
    ELSE IF d.type.kind # "string" THEN "type field must be a string"
    ELSE IF validateModuleType(d.type.val) # Ok THEN "invalid module type"
    ELSE Ok

\* os.Stat(<path>/module.json) reports not-exist only when <path> is a
\* directory without the file; under a regular file it fails with ENOTDIR,
\* and the read that follows fails.
validateModulePath(tree, modulePath) ==
    IF modulePath \notin DOMAIN tree.dirs THEN "module directory does not exist"
    ELSE LET d == tree.dirs[modulePath] IN
         IF d.entry = "dir" /\ d.manifest = "missing" THEN "module.json not found"
         ELSE IF d.entry # "dir" THEN "failed to read module.json"
         ELSE IF validateModuleJSON(d) # Ok THEN "module.json validation failed"
         ELSE Ok

validateSingleModule(tree, moduleKey, module) ==
    IF IsBlank(module.name) THEN "name field is required"
    ELSE IF module.name # moduleKey THEN "module name does not match key"
    ELSE IF IsBlank(module.description) THEN "description field is required"
    ELSE IF IsBlank(module.path) THEN "path field is required"
    ELSE IF validateModuleName(module.name) # Ok THEN "invalid module name"
    ELSE IF module.version # <<>> /\ validateSemanticVersion(module.version) # Ok
      THEN "invalid module version"
    ELSE IF module.shell # <<>> /\ validateShell(module.shell) # Ok
      THEN "invalid shell specification"
    ELSE IF validateModulePath(tree, module.path) # Ok THEN "module path validation failed"
    ELSE Ok

\* The map is ranged over in an unspecified order: the error is that of any
\* failing module.
validateModules(tree) ==
    IF DOMAIN tree.modules = {} THEN "registry must contain at least one module"
    ELSE IF \E k \in DOMAIN tree.modules : validateSingleModule(tree, k, tree.modules[k]) # Ok
      THEN LET k == CHOOSE k \in DOMAIN tree.modules :
                        validateSingleModule(tree, k, tree.modules[k]) # Ok
           IN  validateSingleModule(tree, k, tree.modules[k])
    ELSE Ok

validateIndexJSON(tree) ==
    IF tree.index = "missing" THEN "index.json not found"
    ELSE IF tree.index = "unreadable" THEN "failed to read index.json"
    ELSE IF tree.index = "badjson" THEN "invalid JSON format"
    ELSE IF IsBlank(tree.name) THEN "name field is required and cannot be empty"
    ELSE IF IsBlank(tree.description) THEN "description field is required and cannot be empty"
    ELSE IF IsBlank(tree.version) THEN "version field is required and cannot be empty"
    ELSE IF validateSemanticVersion(tree.version) # Ok THEN "invalid version format"
    ELSE IF validateRegistryName(tree.name) # Ok THEN "invalid registry name"
    ELSE Ok

validateDirectoryStructure(tree) ==
    IF tree.modulesDir = "absent" THEN Ok
    ELSE IF tree.modulesDir = "noaccess" THEN "failed to access modules directory"
    ELSE IF tree.modulesDir = "file" THEN "modules path exists but is not a directory"
    ELSE Ok

\* ValidateStructure that validates the modules before the index manifest
ValidateStructure_ModulesFirst(tree) ==
    IF validateModules(tree) # Ok THEN validateModules(tree)
    ELSE IF validateIndexJSON(tree) # Ok THEN validateIndexJSON(tree)
    ELSE IF validateDirectoryStructure(tree) # Ok THEN validateDirectoryStructure(tree)
    ELSE Ok

ValidateStructure(tree) ==
    IF validateIndexJSON(tree) # Ok THEN validateIndexJSON(tree)
    ELSE IF validateModules(tree) # Ok THEN validateModules(tree)
    ELSE IF validateDirectoryStructure(tree) # Ok THEN validateDirectoryStructure(tree)
    ELSE Ok

\* Client.verifyLocalRegistry: index.json exists, is read, decodes, and has
\* a name that is not the empty string.
verifyLocalRegistry(tree) ==
    IF tree.index = "missing" THEN "registry index.json not found"
    ELSE IF tree.index = "unreadable" THEN "failed to read registry index"
    ELSE IF tree.index = "badjson" THEN "invalid registry index JSON"
    ELSE IF tree.name = <<>> THEN "registry index must have a name field"
    ELSE Ok

----------------------------------------------------------------------------
(* encoding/json, as Client.saveRegistries and Client.loadRegistries use   *)
(* it on []Registry. Description is never set by the client and is left    *)
(* out by omitempty; omitempty has no effect on last_sync, a struct.        *)

DigitSeq == <<"0", "1", "2", "3", "4", "5", "6", "7", "8", "9">>

\* json.Marshal of a string, the text between the quotes: a quote and a
\* backslash are escaped, a byte that is not valid UTF-8 is written as the
\* escape of the replacement rune, every other character is written as is.
RECURSIVE encodeString(_)
encodeString(s) ==
    IF \A i \in 1..Len(s) : s[i] \notin {"\"", "\\", "xFF"} THEN s
    ELSE (CASE Head(s) = "\"" -> <<"\\", "\"">>
            [] Head(s) = "\\" -> <<"\\", "\\">>
            [] Head(s) = "xFF" -> <<"\\", "u", "f", "f", "f", "d">>
            [] OTHER -> <<Head(s)>>) \o encodeString(Tail(s))

\* json.Unmarshal of a string: \" and \\ give the character, \uXXXX gives
\* the rune (the encoder writes only that of the replacement rune), a byte that is
\* not valid UTF-8 is replaced by the replacement rune.
RECURSIVE decodeString(_)
decodeString(e) ==
    IF \A i \in 1..Len(e) : e[i] \notin {"\\", "xFF"} THEN e
    ELSE IF Head(e) = "\\" /\ e[2] = "u"
      THEN <<"uFFFD">> \o decodeString(SubSeq(e, 7, Len(e)))
    ELSE IF Head(e) = "\\"
      THEN <<e[2]>> \o decodeString(SubSeq(e, 3, Len(e)))
    ELSE IF Head(e) = "xFF"
      THEN <<"uFFFD">> \o decodeString(Tail(e))
    ELSE <<Head(e)>> \o decodeString(Tail(e))

\* Time.MarshalJSON, RFC 3339: the reading t of the clock is written as
\* the first second of the year t + 1; the zero Time is in the year 1.
FormatTime(t) ==
    << DigitSeq[(((t + 1) \div 1000) % 10) + 1], DigitSeq[(((t + 1) \div 100) % 10) + 1],
       DigitSeq[(((t + 1) \div 10) % 10) + 1], DigitSeq[((t + 1) % 10) + 1] >>
    \o <<"-", "0", "1", "-", "0", "1", "T", "0", "0", ":", "0", "0", ":", "0", "0", "Z">>

DigitValue(c) == (CHOOSE i \in 1..10 : DigitSeq[i] = c) - 1

\* Time.UnmarshalJSON
ParseTime(s) ==
    DigitValue(s[1]) * 1000 + DigitValue(s[2]) * 100 + DigitValue(s[3]) * 10
      + DigitValue(s[4]) - 1

\* json.MarshalIndent(c.registries, "", "  "): the array of the objects
MarshalIndent(list) ==
    [i \in 1..Len(list) |->
       [url |-> encodeString(list[i].url),
        name |-> encodeString(list[i].name),
        added_at |-> FormatTime(list[i].added_at),
        last_sync |-> FormatTime(list[i].last_sync)]]

\* json.Unmarshal(data, &c.registries)
Unmarshal(data) ==
    [i \in 1..Len(data) |->
       [url |-> decodeString(data[i].url),
        name |-> decodeString(data[i].name),
        added_at |-> ParseTime(data[i].added_at),
        last_sync |-> ParseTime(data[i].last_sync)]]

----------------------------------------------------------------------------
(* Bounds and inputs of the state machine.                                 *)

\* the clock readings are 0..MaxTime
MaxTime == 1

\* at most MaxFaults operations of the environment fail in one run (a clone,
\* a pull, a removal of a directory, a write of the registry file)
MaxFaults == 2

\* https://h/o/r
HttpsURL == <<"h", "t", "t", "p", "s", ":", "/", "/", "h", "/", "o", "/", "r">>

\* Registry names and urls are arbitrary strings to the client; b can be
\* the name of one registry and the url (a local path) of another.
Names == {<<"a">>, <<"b">>}

URLs == {<<"b">>, HttpsURL}

Identifiers == Names \cup URLs

\* a module directory with a module.json accepted by validateModuleJSON
GoodModuleDir ==
    [entry |-> "dir", manifest |-> "ok",
     name |-> JString(<<"g", "i", "t">>),
     description |-> JString(<<"d">>),
     type |-> JString(<<"a", "l", "i", "a", "s", "e", "s">>)]

\* as GoodModuleDir, but module.json has no "type"
NoTypeModuleDir == [GoodModuleDir EXCEPT !.type = JAbsent]

GitModule ==
    [name |-> <<"g", "i", "t">>, description |-> <<"d">>, version |-> <<>>,
     path |-> <<"m", "/", "g">>, shell |-> <<"z", "s", "h">>]

EmptyModules == [k \in {} |-> GitModule]

EmptyDirs == [p \in {} |-> GoodModuleDir]

\* a clone without index.json
TreeNoIndex ==
    [index |-> "missing", name |-> <<>>, description |-> <<>>, version |-> <<>>,
     modules |-> EmptyModules, dirs |-> EmptyDirs, modulesDir |-> "absent"]

\* index.json is {"name": "reg"}
TreeNameOnly ==
    [index |-> "ok", name |-> <<"r", "e", "g">>, description |-> <<>>, version |-> <<>>,
     modules |-> EmptyModules, dirs |-> EmptyDirs, modulesDir |-> "absent"]

\* a complete registry with one module
TreeValid ==
    [index |-> "ok", name |-> <<"r", "e", "g">>, description |-> <<"d">>,
     version |-> <<"1", ".", "0", ".", "0">>,
     modules |-> [k \in {<<"g", "i", "t">>} |-> GitModule],
     dirs |-> [p \in {<<"m", "/", "g">>} |-> GoodModuleDir],
     modulesDir |-> "absent"]

\* a complete index whose only module has a module.json without "type"
TreeBadManifest == [TreeValid EXCEPT !.dirs = [p \in {<<"m", "/", "g">>} |-> NoTypeModuleDir]]

\* the trees a clone or a pull can leave in the cache
Trees == {TreeNoIndex, TreeNameOnly, TreeValid}

----------------------------------------------------------------------------
(* State.                                                                  *)
(*   registries : Client.registries, a sequence of Registry records        *)
(*   file       : registries.json: state "none" (no file), "ok" (data is   *)
(*                the JSON written) or "partial" (a write failed after the *)
(*                truncation)                                              *)
(*   cache      : name -> the directory <cache>/<name>: exists, git (it    *)
(*                has a .git directory), origin (the url it was cloned     *)
(*                from), tree                                              *)
(*   now        : the last reading of the clock                            *)
(*   faults     : the number of environment failures so far                *)
(*   last       : the call that made the last step: op, err (the error it  *)
(*                returned, "" is nil), calls (the operations it invoked)  *)
(*   other      : Client.registries of a second process that shares the    *)
(*                registry file and the cache; the operations run in the   *)
(*                process whose list is registries                         *)
(***************************************************************************)
VARIABLES registries, file, cache, now, faults, last, other

vars == <<registries, file, cache, now, faults, last, other>>

NoDir == [exists |-> FALSE, git |-> FALSE, origin |-> <<>>, tree |-> TreeNoIndex]

Registry(url, name, addedAt, lastSync) ==
    [url |-> url, name |-> name, added_at |-> addedAt, last_sync |-> lastSync]

\* time.Now(): a reading not before the previous one
Ticks(t) == {t, t + 1} \cap (0..MaxTime)

\* GitClient.IsRepositoryCloned: <cache>/<name>/.git is a directory
IsRepositoryCloned(c, name) == c[name].exists /\ c[name].git

\* GitClient.updateRepository: git pull in the directory. It fails in a
\* directory that is not a repository, and can fail in one that is; a pull
\* that succeeds leaves the tree of the remote.
updateRepository(c, name) ==
    IF c[name].git
      THEN {[err |-> "git pull failed", cache |-> c, calls |-> {"pull"}, faults |-> 1]}
           \cup
           {[err |-> Ok, cache |-> [c EXCEPT ![name].tree = t], calls |-> {"pull"},
             faults |-> 0] : t \in Trees}
      ELSE {[err |-> "git pull failed", cache |-> c, calls |-> {"pull"}, faults |-> 0]}

\* GitClient.CloneRepository: pull when <cache>/<name> exists, else a
\* shallow clone, which leaves nothing behind when it fails.
CloneRepository(c, url, name) ==
    IF c[name].exists
      THEN updateRepository(c, name)
      ELSE {[err |-> "git clone failed", cache |-> c, calls |-> {"clone"}, faults |-> 1]}
           \cup
           {[err |-> Ok,
             cache |-> [c EXCEPT ![name] =
                          [exists |-> TRUE, git |-> TRUE, origin |-> url, tree |-> t]],
             calls |-> {"clone"}, faults |-> 0] : t \in Trees}

\* What os.RemoveAll leaves of a directory when it fails: the directory as
\* it was, or the directory with part of its content: its .git (which holds
\* the origin) and its index.json gone.
RemoveAllFailed(d) ==
    {d, [exists |-> TRUE, git |-> FALSE, origin |-> <<>>, tree |-> TreeNoIndex]}

\* RemoveRepository that reports success without deleting anything
RemoveRepository_NoRemove(c, name) ==
    {[err |-> Ok, cache |-> c, calls |-> {}, faults |-> 0]}

\* RemoveRepository that reports success when there is nothing to remove
RemoveRepository_Lenient(c, name) ==
    IF ~IsRepositoryCloned(c, name)
      THEN {[err |-> Ok, cache |-> c, calls |-> {}, faults |-> 0]}
      ELSE {[err |-> Ok, cache |-> [c EXCEPT ![name] = NoDir], calls |-> {"RemoveAll"},
             faults |-> 0]}

\* GitClient.RemoveRepository: an error when not cloned; else os.RemoveAll.
RemoveRepository(c, name) ==
    IF ~IsRepositoryCloned(c, name)
      THEN {[err |-> "repository not found", cache |-> c, calls |-> {}, faults |-> 0]}
      ELSE {[err |-> Ok, cache |-> [c EXCEPT ![name] = NoDir], calls |-> {"RemoveAll"},
             faults |-> 0]}
           \cup
           {[err |-> "failed to remove repository",
             cache |-> [c EXCEPT ![name] = d],
             calls |-> {"RemoveAll"}, faults |-> 1] : d \in RemoveAllFailed(c[name])}

\* saveRegistries that keeps the records the file holds and adds the list
saveRegistries_Merge(f, list) ==
    { [err |-> Ok,
       file |-> [state |-> "ok",
                 data |-> f.data \o SelectSeq(MarshalIndent(list),
                                              LAMBDA o : \A i \in 1..Len(f.data) : f.data[i] # o)],
       faults |-> 0] }

\* Client.saveRegistries: os.WriteFile truncates the file and writes the
\* whole list; it can fail before the truncation or after it.
saveRegistries(f, list) ==
    { [err |-> Ok, file |-> [state |-> "ok", data |-> MarshalIndent(list)], faults |-> 0],
      [err |-> "failed to write registries file", file |-> f, faults |-> 1],
      [err |-> "failed to write registries file",
       file |-> [state |-> "partial", data |-> <<>>], faults |-> 1] }

\* for i, reg := range list: the first of the matching indices, 0 when the
\* loop ends without a match
FirstIndex(matches) ==
    IF matches = {} THEN 0
    ELSE CHOOSE i \in matches : \A j \in matches : i <= j

\* RemoveAt that keeps the record
RemoveAt_KeepAll(list, i) == list

\* RemoveAt that drops the last record instead of the i-th
RemoveAt_Last(list, i) == [j \in 1..(Len(list) - 1) |-> list[j]]

\* append(list[:i], list[i+1:]...)
RemoveAt(list, i) ==
    [j \in 1..(Len(list) - 1) |-> IF j < i THEN list[j] ELSE list[j + 1]]

Init ==
    /\ registries = <<>>
    /\ file = [state |-> "none", data |-> <<>>]
    /\ cache = [n \in Names |-> NoDir]
    /\ now = 0
    /\ faults = 0
    /\ last = [op |-> "NewClient", err |-> Ok, calls |-> {}]
    /\ other = <<>>

\* the call returns err; n of the operations it invoked failed; the client
\* of the other process is not touched
Return(op, err, calls, n) ==
    /\ faults + n <= MaxFaults
    /\ faults' = faults + n
    /\ last' = [op |-> op, err |-> err, calls |-> calls]
    /\ other' = other

\* AddExistsError with the comparison of the urls left out
AddExistsError_NameOnly(list, url, name) ==
    IF \E i \in 1..Len(list) : list[i].name = name
      THEN "registry name already exists"
      ELSE Ok

\* AddExistsError with the comparison of the names left out
AddExistsError_UrlOnly(list, url, name) ==
    IF \E i \in 1..Len(list) : list[i].url = url
      THEN "registry already exists"
      ELSE Ok

\* Client.AddRegistry, the duplicate check
AddExistsError(list, url, name) ==
    LET i == FirstIndex({k \in 1..Len(list) :
                           list[k].url = url \/ list[k].name = name})
    IN  IF i = 0 THEN Ok
        ELSE IF list[i].url = url THEN "registry already exists"
        ELSE "registry name already exists"

\* Client.AddRegistry, the check of the clone
AddVerify(tree) == verifyLocalRegistry(tree)

\* SyncVerify that accepts every tree
SyncVerify_Skip(tree) == Ok

\* Client.SyncRegistry, the check of the synced tree
SyncVerify(tree) == verifyLocalRegistry(tree)

AddRegistry(url, name) ==
    IF AddExistsError(registries, url, name) # Ok
      THEN /\ Return("AddRegistry", AddExistsError(registries, url, name), {}, 0)
           /\ UNCHANGED <<registries, file, cache, now>>
      ELSE \E cl \in CloneRepository(cache, url, name) :
             IF cl.err # Ok
               THEN /\ Return("AddRegistry", "failed to clone registry",
                              {"CloneRepository"} \cup cl.calls, cl.faults)
                    /\ cache' = cl.cache
                    /\ UNCHANGED <<registries, file, now>>
             ELSE IF AddVerify(cl.cache[name].tree) # Ok
               THEN \E rm \in RemoveRepository(cl.cache, name) :
                      /\ Return("AddRegistry", "registry structure validation failed",
                                {"CloneRepository", "verifyLocalRegistry", "RemoveRepository"}
                                  \cup cl.calls \cup rm.calls
                                  \cup (IF rm.err # Ok THEN {"RemoveRepository failed"} ELSE {}),
                                cl.faults + rm.faults)
                      /\ cache' = rm.cache
                      /\ UNCHANGED <<registries, file, now>>
             ELSE \E t1 \in Ticks(now) : \E t2 \in Ticks(t1) :
                  \E sv \in saveRegistries(file, Append(registries, Registry(url, name, t1, t2))) :
                      /\ registries' = Append(registries, Registry(url, name, t1, t2))
                      /\ cache' = cl.cache
                      /\ now' = t2
                      /\ file' = sv.file
                      /\ Return("AddRegistry", sv.err,
                                {"CloneRepository", "verifyLocalRegistry", "saveRegistries"}
                                  \cup cl.calls,
                                cl.faults + sv.faults)

\* RemoveIndex that takes the first record whatever the identifier
RemoveIndex_Any(list, identifier) == IF Len(list) > 0 THEN 1 ELSE 0

\* Client.RemoveRegistry, the search: the first record whose name or url is
\* the identifier
RemoveIndex(list, identifier) ==
    FirstIndex({k \in 1..Len(list) :
                  list[k].name = identifier \/ list[k].url = identifier})

\* RemoveRegistry that gives up when the cache removal fails
RemoveRegistry_Abort(identifier) ==
    LET i == RemoveIndex(registries, identifier)
    IN  IF i = 0
          THEN /\ Return("RemoveRegistry", "registry not found", {}, 0)
               /\ UNCHANGED <<registries, file, cache, now>>
          ELSE \E rm \in RemoveRepository(cache, registries[i].name) :
                 /\ cache' = rm.cache
                 /\ UNCHANGED now
                 /\ IF rm.err # Ok
                      THEN /\ UNCHANGED <<registries, file>>
                           /\ Return("RemoveRegistry", rm.err,
                                     {"RemoveRepository", "RemoveRepository failed"}
                                       \cup rm.calls,
                                     rm.faults)
                      ELSE /\ registries' = RemoveAt(registries, i)
                           /\ \E sv \in saveRegistries(file, RemoveAt(registries, i)) :
                                /\ file' = sv.file
                                /\ Return("RemoveRegistry", sv.err,
                                          {"RemoveRepository", "saveRegistries"}
                                            \cup rm.calls,
                                          rm.faults + sv.faults)

\* Client.RemoveRegistry
RemoveRegistry(identifier) ==
    LET i == RemoveIndex(registries, identifier)
    IN  IF i = 0
          THEN /\ Return("RemoveRegistry", "registry not found", {}, 0)
               /\ UNCHANGED <<registries, file, cache, now>>
          ELSE LET rest == RemoveAt(registries, i)
               IN  /\ registries' = rest
                   /\ UNCHANGED now
                   /\ \E rm \in RemoveRepository(cache, registries[i].name) :
                        /\ cache' = rm.cache
                        /\ \E sv \in saveRegistries(file, rest) :
                             /\ file' = sv.file
                             /\ Return("RemoveRegistry", sv.err,
                                       {"RemoveRepository", "saveRegistries"}
                                         \cup rm.calls
                                         \cup (IF rm.err # Ok
                                                 THEN {"RemoveRepository failed"}
                                                 ELSE {}),
                                       rm.faults + sv.faults)

\* Client.ListRegistries
ListRegistries == registries

\* Client.SyncRegistry, the search: the first record with the name
SyncIndex(list, name) ==
    FirstIndex({k \in 1..Len(list) : list[k].name = name})

\* SyncStamp that stores the zero time
SyncStamp_Zero(list, i, t) == [list EXCEPT ![i].last_sync = 0]

\* SyncStamp that also restamps added_at
SyncStamp_Readded(list, i, t) == [list EXCEPT ![i].last_sync = t, ![i].added_at = t]

\* Client.SyncRegistry, c.registries[registryIndex].LastSync = time.Now()
SyncStamp(list, i, t) == [list EXCEPT ![i].last_sync = t]

\* Client.SyncRegistry
SyncRegistry(name) ==
    LET i == SyncIndex(registries, name)
    IN  IF i = 0
          THEN /\ Return("SyncRegistry", "registry not found", {}, 0)
               /\ UNCHANGED <<registries, file, cache, now>>
          ELSE \E cl \in (IF ~IsRepositoryCloned(cache, name)
                            THEN {[o EXCEPT !.calls = @ \cup {"CloneRepository"}] :
                                    o \in CloneRepository(cache, registries[i].url, name)}
                            ELSE updateRepository(cache, name)) :
                 IF cl.err # Ok
                   THEN /\ Return("SyncRegistry",
                                  IF ~IsRepositoryCloned(cache, name)
                                    THEN "failed to clone registry during sync"
                                    ELSE "failed to update registry",
                                  cl.calls, cl.faults)
                        /\ cache' = cl.cache
                        /\ UNCHANGED <<registries, file, now>>
                 ELSE IF SyncVerify(cl.cache[name].tree) # Ok
                   THEN /\ Return("SyncRegistry", "registry validation failed after sync",
                                  cl.calls \cup {"verifyLocalRegistry"}, cl.faults)
                        /\ cache' = cl.cache
                        /\ UNCHANGED <<registries, file, now>>
                 ELSE \E t \in Ticks(now) :
                      \E sv \in saveRegistries(file, SyncStamp(registries, i, t)) :
                        /\ registries' = SyncStamp(registries, i, t)
                        /\ cache' = cl.cache
                        /\ now' = t
                        /\ file' = sv.file
                        /\ Return("SyncRegistry", sv.err,
                                  cl.calls \cup {"verifyLocalRegistry", "saveRegistries"},
                                  cl.faults + sv.faults)

\* NewClient with loadRegistries: a new process reads the list from the
\* registry file (no file: the empty list); a file that does not parse
\* makes the construction fail, and no client replaces the current one.
loadRegistries(f) ==
    IF f.state = "none" THEN [err |-> Ok, list |-> <<>>]
    ELSE IF f.state = "partial" THEN [err |-> "failed to parse registries file", list |-> <<>>]
    ELSE [err |-> Ok, list |-> Unmarshal(f.data)]

NewClient ==
    /\ loadRegistries(file).err = Ok
    /\ registries' = loadRegistries(file).list
    /\ Return("NewClient", Ok, {"loadRegistries"}, 0)
    /\ UNCHANGED <<file, cache, now>>

Add == \E url \in URLs : \E name \in Names : AddRegistry(url, name)

Remove == \E identifier \in Identifiers : RemoveRegistry(identifier)

Sync == \E name \in Names : SyncRegistry(name)

Next == Add \/ Remove \/ Sync

\* one client, from an empty list and an empty cache
Spec == Init /\ [][Next]_vars

\* the command line: every command constructs its client anew
NextCLI == Next \/ NewClient

SpecCLI == Init /\ [][NextCLI]_vars


----------------------------------------------------------------------------
(* The registry file as a store: a list is written, a new client reads it. *)

\* the longest list written
MaxLen == 2

\* names a caller can pass: a letter, a quote, a backslash, a byte that is
\* not valid UTF-8, the replacement rune
JSONNames == {<<"a">>, <<"q", "\"">>, <<"\\">>, <<"xFF">>, <<"uFFFD">>}

JSONRecords ==
    {Registry(url, name, t1, t2) :
       url \in URLs, name \in JSONNames, t1 \in 0..MaxTime, t2 \in 0..MaxTime}

\* the lists of at most MaxLen records that AddRegistry can build: no name
\* and no url twice
JSONLists ==
    {list \in UNION {[1..n -> JSONRecords] : n \in 0..MaxLen} :
       \A i \in 1..Len(list) : \A j \in 1..Len(list) :
         i # j => list[i].name # list[j].name /\ list[i].url # list[j].url}

InitJSON ==
    /\ registries \in JSONLists
    /\ file = [state |-> "none", data |-> <<>>]
    /\ cache = [n \in Names |-> NoDir]
    /\ now = 0
    /\ faults = 0
    /\ last = [op |-> "NewClient", err |-> Ok, calls |-> {}]
    /\ other = <<>>

\* Client.saveRegistries on the client's list
Save ==
    \E sv \in saveRegistries(file, registries) :
      /\ file' = sv.file
      /\ Return("saveRegistries", sv.err, {"saveRegistries"}, sv.faults)
      /\ UNCHANGED <<registries, cache, now>>

NextJSON == Save \/ NewClient

\* a list is saved and loaded again
SpecJSON == InitJSON /\ [][NextJSON]_vars

----------------------------------------------------------------------------
(* Two processes on one registry file and one cache, without a lock.       *)

\* the other process runs: its client becomes the one the operations act on
Switch ==
    /\ registries' = other
    /\ other' = registries
    /\ last' = [op |-> "Switch", err |-> Ok, calls |-> {}]
    /\ UNCHANGED <<file, cache, now, faults>>

\* an AddRegistry during which no clone, pull, removal or write fails
AddNoFault == Add /\ faults' = faults

NextRace == AddNoFault \/ Switch

\* two processes that add registries; both start with the list of Init, and
\* the environment does not fail
SpecRace == Init /\ [][NextRace]_vars


----------------------------------------------------------------------------
(* URLValidator. The urls of the model have no fragment, query, escape,    *)
(* space or control character, and no IPv6 host: those branches of         *)
(* url.Parse are left out.                                                 *)

HasPrefix(s, p) == Len(s) >= Len(p) /\ SubSeq(s, 1, Len(p)) = p

HasSuffix(s, p) == Len(s) >= Len(p) /\ SubSeq(s, Len(s) - Len(p) + 1, Len(s)) = p

TrimSuffix(s, p) == IF HasSuffix(s, p) THEN SubSeq(s, 1, Len(s) - Len(p)) ELSE s

\* strings.Contains
Contains(s, sub) == \E i \in 1..(Len(s) - Len(sub) + 1) : SubSeq(s, i, i + Len(sub) - 1) = sub

\* strings.Index of a character, from 1; 0 when there is none
Index(s, c) == FirstIndex({i \in 1..Len(s) : s[i] = c})

\* strings.LastIndex of a character, from 1; 0 when there is none
LastIndex(s, c) ==
    IF \E i \in 1..Len(s) : s[i] = c
      THEN CHOOSE i \in 1..Len(s) : s[i] = c /\ \A j \in (i + 1)..Len(s) : s[j] # c
      ELSE 0

\* strings.Trim(s, "/")
RECURSIVE TrimSlashes(_)
TrimSlashes(s) ==
    IF s # <<>> /\ Head(s) = "/" THEN TrimSlashes(Tail(s))
    ELSE IF s # <<>> /\ s[Len(s)] = "/" THEN TrimSlashes(SubSeq(s, 1, Len(s) - 1))
    ELSE s

\* strings.Split(s, "/")
RECURSIVE Split(_)
Split(s) ==
    IF Index(s, "/") = 0 THEN <<s>>
    ELSE <<SubSeq(s, 1, Index(s, "/") - 1)>> \o Split(SubSeq(s, Index(s, "/") + 1, Len(s)))

URL(scheme, host, path) == [err |-> Ok, Scheme |-> scheme, Host |-> host, Path |-> path]

ParseError(e) == [err |-> e, Scheme |-> <<>>, Host |-> <<>>, Path |-> <<>>]

\* net/url getScheme: the scheme is the text before the first ":" when only
\* letters, and after the first character digits, "+", "-" and ".", come
\* before it; any other character first means there is no scheme.
getScheme(rawURL) ==
    LET i == FirstIndex({k \in 1..Len(rawURL) :
                           ~(\/ rawURL[k] \in LowerLetters \cup UpperLetters
                             \/ k > 1 /\ rawURL[k] \in Digits \cup {"+", "-", "."})})
    IN  IF i = 0 \/ rawURL[i] # ":"
          THEN [err |-> Ok, scheme |-> <<>>, rest |-> rawURL]
        ELSE IF i = 1
          THEN [err |-> "missing protocol scheme", scheme |-> <<>>, rest |-> <<>>]
        ELSE [err |-> Ok, scheme |-> SubSeq(rawURL, 1, i - 1),
              rest |-> SubSeq(rawURL, i + 1, Len(rawURL))]

\* net/url parseAuthority and parseHost: the host is what follows the last
\* "@"; what follows its last ":" must be a number or empty
parseAuthority(authority) ==
    LET host == SubSeq(authority, LastIndex(authority, "@") + 1, Len(authority))
        port == SubSeq(host, LastIndex(host, ":") + 1, Len(host))
    IN  IF LastIndex(host, ":") # 0 /\ ~AllIn(port, Digits)
          THEN [err |-> "invalid port after host", host |-> <<>>]
          ELSE [err |-> Ok, host |-> host]

\* url.Parse
Parse(rawURL) ==
    LET g == getScheme(rawURL)
        scheme == ToLower(g.scheme)
        rest == g.rest
        segment == IF Index(rest, "/") = 0 THEN rest
                   ELSE SubSeq(rest, 1, Index(rest, "/") - 1)
        afterSlashes == SubSeq(rest, 3, Len(rest))
        authority == IF Index(afterSlashes, "/") = 0 THEN afterSlashes
                     ELSE SubSeq(afterSlashes, 1, Index(afterSlashes, "/") - 1)
        path == SubSeq(afterSlashes, Len(authority) + 1, Len(afterSlashes))
    IN  IF g.err # Ok THEN ParseError(g.err)
        ELSE IF ~HasPrefix(rest, <<"/">>) /\ scheme # <<>>
          THEN URL(scheme, <<>>, <<>>)
        ELSE IF ~HasPrefix(rest, <<"/">>) /\ Index(segment, ":") # 0
          THEN ParseError("first path segment in URL cannot contain colon")
        ELSE IF /\ HasPrefix(rest, <<"/", "/">>)
                /\ (scheme # <<>> \/ ~HasPrefix(rest, <<"/", "/", "/">>))
          THEN IF parseAuthority(authority).err # Ok
                 THEN ParseError(parseAuthority(authority).err)
                 ELSE URL(scheme, parseAuthority(authority).host, path)
        ELSE URL(scheme, <<>>, rest)

\* ^[a-zA-Z0-9._-]+$
IsValidName(s) ==
    Len(s) >= 1 /\ AllIn(s, LowerLetters \cup UpperLetters \cup Digits \cup {".", "_", "-"})

DotGit == <<".", "g", "i", "t">>

validateGitHubURL(pathParts) ==
    IF Len(pathParts) < 2 THEN "GitHub URLs must be in format: owner/repository"
    ELSE IF pathParts[1] = <<>> \/ pathParts[2] = <<>>
      THEN "both owner and repository name are required"
    ELSE IF ~IsValidName(pathParts[1]) THEN "invalid GitHub owner name"
    ELSE IF ~IsValidName(TrimSuffix(pathParts[2], DotGit)) THEN "invalid GitHub repository name"
    ELSE Ok

validateGitLabURL(pathParts) ==
    IF Len(pathParts) < 2
      THEN "GitLab URLs must be in format: owner/repository or group/subgroup/repository"
    ELSE IF pathParts[Len(pathParts)] = <<>> THEN "repository name is required"
    ELSE IF ~IsValidName(TrimSuffix(pathParts[Len(pathParts)], DotGit))
      THEN "invalid repository name"
    ELSE Ok

validateBitbucketURL(pathParts) ==
    IF Len(pathParts) < 2 THEN "Bitbucket URLs must be in format: workspace/repository"
    ELSE IF pathParts[1] = <<>> \/ pathParts[2] = <<>>
      THEN "both workspace and repository name are required"
    ELSE Ok

validateGenericGitURL(pathParts) ==
    IF Len(pathParts) < 1 THEN "repository path is required"
    ELSE IF pathParts[Len(pathParts)] = <<>> THEN "repository name is required"
    ELSE Ok

validateGitHostingPattern(host, path) ==
    LET pathParts == Split(TrimSlashes(TrimSuffix(path, <<"/">>)))
    IN  IF Len(pathParts) < 2 THEN "repository path should be in format owner/repository"
        ELSE IF Contains(host, <<"g", "i", "t", "h", "u", "b", ".", "c", "o", "m">>)
          THEN validateGitHubURL(pathParts)
        ELSE IF Contains(host, <<"g", "i", "t", "l", "a", "b">>)
          THEN validateGitLabURL(pathParts)
        ELSE IF Contains(host, <<"b", "i", "t", "b", "u", "c", "k", "e", "t", ".", "o", "r", "g">>)
          THEN validateBitbucketURL(pathParts)
        ELSE validateGenericGitURL(pathParts)

validateHTTPSURL(parsedURL) ==
    IF parsedURL.Host = <<>> THEN "URL must include a host"
    ELSE IF parsedURL.Path = <<>> \/ parsedURL.Path = <<"/">>
      THEN "URL must include a repository path"
    ELSE validateGitHostingPattern(parsedURL.Host, parsedURL.Path)

\* ^git@([^:]+):([^/].+)$ : "git@", a host without ":" of one character or
\* more, the first ":", then a character that is not "/" and one more
\* character or more. A match has a host and a path that are not empty.
validateSSHURL(rawURL) ==
    LET colon == Index(rawURL, ":")
    IN  IF /\ HasPrefix(rawURL, <<"g", "i", "t", "@">>)
           /\ colon > 5
           /\ Len(rawURL) >= colon + 2
           /\ rawURL[colon + 1] # "/"
          THEN Ok
          ELSE "invalid SSH URL format, expected: git@host:path"

validateURLFormat(rawURL) ==
    IF Parse(rawURL).err # Ok THEN "failed to parse URL"
    ELSE IF Parse(rawURL).Scheme = <<>> THEN "URL must include a scheme (https:// or git@)"
    ELSE IF Parse(rawURL).Scheme = <<"h", "t", "t", "p", "s">>
      THEN validateHTTPSURL(Parse(rawURL))
    ELSE IF Parse(rawURL).Scheme = <<"g", "i", "t">> THEN validateSSHURL(rawURL)
    ELSE "unsupported URL scheme"

\* URLValidator.buildGitEndpoints
buildGitEndpoints(rawURL) ==
    LET baseURL == TrimSuffix(rawURL, DotGit)
        infoRefs == <<"/", "i", "n", "f", "o", "/", "r", "e", "f", "s">>
    IN  <<rawURL>>
        \o (IF ~HasSuffix(rawURL, DotGit) THEN <<baseURL \o DotGit>> ELSE <<>>)
        \o <<baseURL \o DotGit \o infoRefs, baseURL \o infoRefs, baseURL>>

\* what a GET answers: a status code, or 0 when client.Do returns an error
Responses == {0, 200, 301, 302, 401, 403, 404, 500}

\* testEndpoint that takes 403 for an answer that proves the repository
testEndpoint_Allow403(response) ==
    IF response = 0 THEN "request failed"
    ELSE IF response \in {200, 301, 302, 401, 403} THEN Ok
    ELSE IF response = 404 THEN "repository not found (404)"
    ELSE "unexpected status code"

\* URLValidator.testEndpoint, on the response to its request
testEndpoint(response) ==
    IF response = 0 THEN "request failed"
    ELSE IF response \in {200, 301, 302, 401} THEN Ok
    ELSE IF response = 404 THEN "repository not found (404)"
    ELSE IF response = 403 THEN "access forbidden (403) - repository may be private"
    ELSE "unexpected status code"

\* git@github.com:user/repo.git
SSHShorthandURL ==
    <<"g", "i", "t", "@", "g", "i", "t", "h", "u", "b", ".", "c", "o", "m",
      ":", "u", "s", "e", "r", "/", "r", "e", "p", "o", ".", "g", "i", "t">>

\* git@h:r
SSHShortURL ==
    <<"g", "i", "t", "@", "h", ":", "r">>

\* git@github.com/user/repo
SSHSlashURL ==
    <<"g", "i", "t", "@", "g", "i", "t", "h", "u", "b", ".", "c", "o", "m",
      "/", "u", "s", "e", "r", "/", "r", "e", "p", "o">>

\* git://h/o/r
GitSchemeURL ==
    <<"g", "i", "t", ":", "/", "/", "h", "/", "o", "/", "r">>

\* https://github.com/user/repo
GitHubURL ==
    <<"h", "t", "t", "p", "s", ":", "/", "/", "g", "i", "t", "h", "u", "b",
      ".", "c", "o", "m", "/", "u", "s", "e", "r", "/", "r", "e", "p", "o">>

\* ftp://github.com/user/repo
FtpURL ==
    <<"f", "t", "p", ":", "/", "/", "g", "i", "t", "h", "u", "b", ".", "c",
      "o", "m", "/", "u", "s", "e", "r", "/", "r", "e", "p", "o">>

\* github.com/user/repo
NoSchemeURL ==
    <<"g", "i", "t", "h", "u", "b", ".", "c", "o", "m", "/", "u", "s", "e",
      "r", "/", "r", "e", "p", "o">>

\* https://git.example.com/repo
GenericRepoURL ==
    <<"h", "t", "t", "p", "s", ":", "/", "/", "g", "i", "t", ".", "e", "x",
      "a", "m", "p", "l", "e", ".", "c", "o", "m", "/", "r", "e", "p", "o">>

\* https://github.com/user/repo@bad
GitHubBadRepoURL == GitHubURL \o <<"@", "b", "a", "d">>

\* https://gitlab.com/us@er/repo
GitLabBadOwnerURL ==
    <<"h", "t", "t", "p", "s", ":", "/", "/", "g", "i", "t", "l", "a", "b",
      ".", "c", "o", "m", "/", "u", "s", "@", "e", "r", "/", "r", "e", "p", "o">>

\* https://bitbucket.org/user/repo@bad
BitbucketBadRepoURL ==
    <<"h", "t", "t", "p", "s", ":", "/", "/", "b", "i", "t", "b", "u", "c",
      "k", "e", "t", ".", "o", "r", "g", "/", "u", "s", "e", "r", "/", "r",
      "e", "p", "o", "@", "b", "a", "d">>

\* the urls given to the validator
SampleURLs ==
    {SSHShorthandURL, SSHShortURL, SSHSlashURL, GitSchemeURL, GitHubURL, FtpURL,
     NoSchemeURL, HttpsURL, <<"b">>, GenericRepoURL, GenericRepoURL \o <<"/">>,
     GenericRepoURL \o DotGit, GitHubURL \o DotGit, GitHubBadRepoURL,
     GitLabBadOwnerURL, BitbucketBadRepoURL}

\* no call of checkHTTPSAccessibility is in its loop
Idle == IF last.op = "checkHTTPSAccessibility" THEN last.pc = "done" ELSE TRUE

\* a call of URLValidator.validateURLFormat
FormatCheck ==
    \E rawURL \in SampleURLs :
      /\ Idle
      /\ last' = [op |-> "validateURLFormat", err |-> validateURLFormat(rawURL),
                  calls |-> {}, arg |-> rawURL]
      /\ UNCHANGED <<registries, file, cache, now, faults, other>>

\* URLValidator.checkHTTPSAccessibility, up to its loop
CheckStart ==
    \E rawURL \in {HttpsURL, HttpsURL \o DotGit} :
      /\ Idle
      /\ last' = [op |-> "checkHTTPSAccessibility", err |-> Ok, calls |-> {},
                  arg |-> rawURL, probes |-> <<>>, lastErr |-> Ok, pc |-> "loop"]
      /\ UNCHANGED <<registries, file, cache, now, faults, other>>

\* URLValidator.checkHTTPSAccessibility, one turn of the loop (a request and
\* its response), or the return after the last endpoint
CheckProbe ==
    /\ last.op = "checkHTTPSAccessibility"
    /\ last.pc = "loop"
    /\ LET endpoints == buildGitEndpoints(last.arg)
           n == Len(last.probes)
       IN  IF n = Len(endpoints)
             THEN last' = [last EXCEPT
                             !.err = "repository not accessible at any known endpoints",
                             !.pc = "done"]
             ELSE \E response \in Responses :
                    last' = [last EXCEPT
                               !.probes = Append(@, [endpoint |-> endpoints[n + 1],
                                                     response |-> response]),
                               !.lastErr = IF testEndpoint(response) # Ok
                                             THEN testEndpoint(response) ELSE @,
                               !.pc = IF testEndpoint(response) = Ok
                                        THEN "done" ELSE "loop"]
    /\ UNCHANGED <<registries, file, cache, now, faults, other>>

NextURL == FormatCheck \/ CheckStart \/ CheckProbe

\* calls of the URL validator
SpecURL == Init /\ [][NextURL]_vars


----------------------------------------------------------------------------
(* Reads of the client.                                                    *)

\* readIndexFile that pulls before it reads
readIndexFile_Pull(c, name) ==
    {[err |-> Ok, cache |-> o.cache, calls |-> o.calls \cup {"ReadFile"}] :
       o \in updateRepository(c, name)}

\* Client.GetRegistryIndex, os.ReadFile and json.Unmarshal of
\* <cache>/<name>/index.json
readIndexFile(c, name) ==
    {[err |-> IF c[name].tree.index \in {"missing", "unreadable"}
                THEN "failed to read registry index"
              ELSE IF c[name].tree.index = "badjson"
                THEN "failed to decode registry index"
              ELSE Ok,
      cache |-> c, calls |-> {"ReadFile"}]}

\* Client.GetRegistryIndex
GetRegistryIndex(registryName) ==
    IF \A i \in 1..Len(registries) : registries[i].name # registryName
      THEN /\ Return("GetRegistryIndex", "registry not found", {}, 0)
           /\ UNCHANGED <<registries, file, cache, now>>
      ELSE \E rd \in readIndexFile(cache, registryName) :
             /\ cache' = rd.cache
             /\ Return("GetRegistryIndex", rd.err, rd.calls, 0)
             /\ UNCHANGED <<registries, file, now>>

GetIndex == \E registryName \in Names : GetRegistryIndex(registryName)

NextRead == NextCLI \/ GetIndex

\* the commands and the reads of the index
SpecRead == Init /\ [][NextRead]_vars

----------------------------------------------------------------------------
(* The GitClient by itself, as git_client_test.go calls it.                *)

RepositoryInfo(name, remoteURL, hash, time) ==
    [Name |-> name, RemoteURL |-> remoteURL, LastCommitHash |-> hash,
     LastCommitTime |-> time]

\* GitClient.GetRepositoryInfo: an error when not cloned; else the fields
\* that git gives: "git remote get-url origin" can fail (no RemoteURL),
\* "git log" can fail or print fewer than three parts (no commit fields),
\* and the timestamp can fail to parse (no LastCommitTime). The hash is "c",
\* the time is 1; the zero values are the empty string and 0.
GetRepositoryInfo(c, name) ==
    IF ~IsRepositoryCloned(c, name)
      THEN {[err |-> "repository not cloned", info |-> RepositoryInfo(<<>>, <<>>, <<>>, 0)]}
      ELSE {[err |-> Ok, info |-> RepositoryInfo(name, remoteURL, commit[1], commit[2])] :
              remoteURL \in {c[name].origin, <<>>},
              commit \in {<<<<"c">>, 1>>, <<<<"c">>, 0>>, <<<<>>, 0>>}}

\* a call of GitClient.CloneRepository
CallCloneRepository(url, name) ==
    \E cl \in CloneRepository(cache, url, name) :
      /\ cache' = cl.cache
      /\ Return("CloneRepository", cl.err, cl.calls, cl.faults)
      /\ UNCHANGED <<registries, file, now>>

\* a call of GitClient.RemoveRepository
CallRemoveRepository(name) ==
    \E rm \in RemoveRepository(cache, name) :
      /\ cache' = rm.cache
      /\ Return("RemoveRepository", rm.err, rm.calls, rm.faults)
      /\ UNCHANGED <<registries, file, now>>

\* a call of GitClient.GetRepositoryInfo
CallGetRepositoryInfo(name) ==
    \E r \in GetRepositoryInfo(cache, name) :
      /\ last' = [op |-> "GetRepositoryInfo", err |-> r.err, calls |-> {}, info |-> r.info]
      /\ UNCHANGED <<registries, file, cache, now, faults, other>>

GitClone == \E url \in URLs : \E name \in Names : CallCloneRepository(url, name)

GitRemove == \E name \in Names : CallRemoveRepository(name)

GitInfo == \E name \in Names : CallGetRepositoryInfo(name)

NextGit == GitClone \/ GitRemove \/ GitInfo

\* a GitClient on an empty cache directory
SpecGit == Init /\ [][NextGit]_vars


----------------------------------------------------------------------------
(* StructureValidator.ValidateStructure on the working trees of a          *)
(* repository path.                                                        *)

\* a module map whose only key differs from the name of its module
MismatchModules == [k \in {<<"x">>} |-> GitModule]

\* the trees given to the validator: what index.json holds when it decodes,
\* with the module directory and the modules path in each of their shapes
StructureTrees ==
    {[index |-> "ok", name |-> n, description |-> d, version |-> v, modules |-> ms,
      dirs |-> [p \in {<<"m", "/", "g">>} |-> md], modulesDir |-> mdir] :
       n \in {<<>>, <<"r", "e", "g">>}, d \in {<<>>, <<"d">>},
       v \in {<<>>, <<"1", ".", "0">>, <<"1", ".", "0", ".", "0">>},
       ms \in {EmptyModules, MismatchModules, TreeValid.modules},
       md \in {GoodModuleDir, NoTypeModuleDir},
       mdir \in {"absent", "dir", "file", "noaccess"}}
    \cup
    {[TreeNoIndex EXCEPT !.index = i, !.modulesDir = mdir] :
       i \in {"missing", "unreadable", "badjson"},
       mdir \in {"absent", "dir", "file", "noaccess"}}

\* the checks a call of ValidateStructure runs
ValidateStructureCalls(tree) ==
    {"validateIndexJSON"}
    \cup (IF validateIndexJSON(tree) = Ok THEN {"validateModules"} ELSE {})
    \cup (IF validateIndexJSON(tree) = Ok /\ validateModules(tree) = Ok
            THEN {"validateDirectoryStructure"} ELSE {})

\* a call of StructureValidator.ValidateStructure
CallValidateStructure(tree) ==
    /\ last' = [op |-> "ValidateStructure", err |-> ValidateStructure(tree),
                calls |-> ValidateStructureCalls(tree), arg |-> tree]
    /\ UNCHANGED <<registries, file, cache, now, faults, other>>

Validate == \E tree \in StructureTrees : CallValidateStructure(tree)

\* the values of a key of module.json: absent, a value that is not a string
\* (a number, null, an object), a string
JValues(strings) == {JAbsent, JOther} \cup {JString(s) : s \in strings}

\* the module.json files given to validateModuleJSON
ModuleManifests ==
    {[entry |-> "dir", manifest |-> m, name |-> n, description |-> d, type |-> t] :
       m \in {"ok", "badjson", "unreadable"},
       n \in JValues({<<"g", "i", "t">>}),
       d \in JValues({<<"d">>}),
       t \in JValues({<<"a", "l", "i", "a", "s", "e", "s">>,
                      <<"A", "l", "i", "a", "s", "e", "s">>,
                      <<"p", "l", "u", "g", "i", "n">>})}

\* a call of StructureValidator.validateModuleJSON
CallValidateModuleJSON(d) ==
    /\ last' = [op |-> "validateModuleJSON", err |-> validateModuleJSON(d),
                calls |-> {}, arg |-> d]
    /\ UNCHANGED <<registries, file, cache, now, faults, other>>

ValidateManifest == \E d \in ModuleManifests : CallValidateModuleJSON(d)

NextStructure == Validate \/ ValidateManifest

\* calls of the structure validator
SpecStructure == Init /\ [][NextStructure]_vars


----------------------------------------------------------------------------
(* The module service (internal/module), which lists the modules of the    *)
(* registered registries through Client.ListRegistries and                 *)
(* Client.GetRegistryIndex.                                                *)

\* the bytes of the names of the model, in the order of their values
ByteOrder == <<"-">> \o DigitSeq \o UpperSeq \o LowerSeq

ByteRank(ch) == FirstIndex({i \in 1..Len(ByteOrder) : ByteOrder[i] = ch})

\* a < b on Go strings
RECURSIVE StringLess(_, _)
StringLess(a, b) ==
    IF b = <<>> THEN FALSE
    ELSE IF a = <<>> THEN TRUE
    ELSE IF Head(a) = Head(b) THEN StringLess(Tail(a), Tail(b))
    ELSE ByteRank(Head(a)) < ByteRank(Head(b))

ModuleInfo(module, reg) ==
    [Module |-> module, RegistryName |-> reg.name, RegistryURL |-> reg.url]

\* what Client.GetRegistryIndex returns: the error, and the modules of the
\* decoded index
RegistryIndexOf(list, c, registryName) ==
    IF \A i \in 1..Len(list) : list[i].name # registryName
      THEN [err |-> "registry not found", Modules |-> EmptyModules]
      ELSE LET rd == CHOOSE r \in readIndexFile(c, registryName) : TRUE
           IN  [err |-> rd.err,
                Modules |-> IF rd.err = Ok THEN c[registryName].tree.modules
                            ELSE EmptyModules]

\* s.registryClient.GetRegistryIndex(reg.URL)
ServiceIndex(list, c, reg) == RegistryIndexOf(list, c, reg.url)

\* sort.Slice by Module.Name of the entries (the i-th registry of regs, key
\* k of its index): every order of them in which no name comes before a
\* smaller one
SortedInfos(list, c, regs) ==
    LET Entries == {e \in (1..Len(regs)) \X {<<"g", "i", "t">>, <<"x">>} :
                      /\ ServiceIndex(list, c, regs[e[1]]).err = Ok
                      /\ e[2] \in DOMAIN ServiceIndex(list, c, regs[e[1]]).Modules}
        Info(e) == ModuleInfo(ServiceIndex(list, c, regs[e[1]]).Modules[e[2]], regs[e[1]])
        n == Cardinality(Entries)
    IN  {[j \in 1..n |-> Info(f[j])] :
           f \in {g \in [1..n -> Entries] :
                    /\ \A i, j \in 1..n : i # j => g[i] # g[j]
                    /\ \A i, j \in 1..n :
                         i < j => ~StringLess(Info(g[j]).Module.name, Info(g[i]).Module.name)}}

\* Service.ListAllModules
ListAllModules ==
    \E result \in SortedInfos(registries, cache, registries) :
      /\ last' = [op |-> "ListAllModules", err |-> Ok, calls |-> {"GetRegistryIndex"},
                  arg |-> <<>>, result |-> result]
      /\ UNCHANGED <<registries, file, cache, now, faults, other>>

\* Service.ListModulesByRegistry
ListModulesByRegistry(registryIdentifier) ==
    LET i == FirstIndex({k \in 1..Len(registries) :
                           \/ registries[k].name = registryIdentifier
                           \/ registries[k].url = registryIdentifier})
    IN  /\ IF i = 0
             THEN last' = [op |-> "ListModulesByRegistry", err |-> "registry not found",
                           calls |-> {}, arg |-> registryIdentifier, result |-> <<>>]
           ELSE IF ServiceIndex(registries, cache, registries[i]).err # Ok
             THEN last' = [op |-> "ListModulesByRegistry",
                           err |-> "failed to fetch modules from registry",
                           calls |-> {"GetRegistryIndex"}, arg |-> registryIdentifier,
                           result |-> <<>>]
           ELSE \E result \in SortedInfos(registries, cache, <<registries[i]>>) :
                  last' = [op |-> "ListModulesByRegistry", err |-> Ok,
                           calls |-> {"GetRegistryIndex"}, arg |-> registryIdentifier,
                           result |-> result]
        /\ UNCHANGED <<registries, file, cache, now, faults, other>>

ListAll == ListAllModules

ListBy == \E registryIdentifier \in Identifiers : ListModulesByRegistry(registryIdentifier)

NextModules == Next \/ ListAll \/ ListBy

\* the client's operations and the listings of the module service
SpecModules == Init /\ [][NextModules]_vars

----------------------------------------------------------------------------
(* Properties.                                                             *)

Records(list) == {list[i] : i \in 1..Len(list)}

\* the list a client constructed now would hold
StoredList(f) == loadRegistries(f).list

HasName(list, name) == \E r \in Records(list) : r.name = name

HasUrl(list, url) == \E r \in Records(list) : r.url = url

Unique(list) ==
    \A i \in 1..Len(list) : \A j \in 1..Len(list) :
        i # j => list[i].name # list[j].name /\ list[i].url # list[j].url

ExistsErrors == {"registry already exists", "registry name already exists"}

ValidationError == "registry structure validation failed"

\* C1: in every state reached from the empty list by AddRegistry,
\* RemoveRegistry and SyncRegistry calls on one client, no two records of
\* the list (the client's, and the persisted one) have the same name, and no
\* two have the same url.
C1_UniqueNameAndUrl == Unique(registries) /\ Unique(StoredList(file))

\* two records are registered and persisted
C1_Witness == Len(registries) = 2 /\ file.state = "ok" /\ Len(StoredList(file)) = 2

\* C2: an AddRegistry call writes its record to the persisted list only
\* when the tree it cloned to <cache>/<name> passes ValidateStructure (index
\* manifest, non-empty module mapping, every module with its module
\* manifest): a tree that ValidateStructure rejects is never registered.
C2_OnlyValidatedTreesRegistered ==
    (last.op = "AddRegistry" /\ last.err = Ok)
        => /\ file.state = "ok"
           /\ StoredList(file) = registries
           /\ ValidateStructure(cache[registries[Len(registries)].name].tree) = Ok

\* C3 as claimed: when AddRegistry returns the validation error (the clone
\* succeeded, its validation failed), no record of the list (client's or
\* persisted) has that name or url, and <cache>/<name> does not exist.
C3_FailedAddLeavesNothing ==
    [][\A url \in URLs : \A name \in Names :
         (last'.err = ValidationError /\ AddRegistry(url, name))
         => /\ ~HasName(registries', name) /\ ~HasUrl(registries', url)
            /\ ~HasName(StoredList(file'), name) /\ ~HasUrl(StoredList(file'), url)
            /\ ~cache'[name].exists]_vars

\* C3 amended: when AddRegistry returns the validation error (the clone
\* succeeded, its validation failed), it has changed neither the client's
\* list nor the registry file, the client's list has no record with that
\* name or url, and <cache>/<name> does not exist when the call returns
\* unless the removal of the directory failed.
C3_FailedAddCleansUp ==
    [][\A url \in URLs : \A name \in Names :
         (last'.err = ValidationError /\ AddRegistry(url, name))
         => /\ registries' = registries
            /\ file' = file
            /\ ~HasName(registries', name) /\ ~HasUrl(registries', url)
            /\ (cache'[name].exists => "RemoveRepository failed" \in last'.calls)]_vars

\* an AddRegistry failed at the validation and removed its clone
C3_Witness ==
    /\ last.op = "AddRegistry"
    /\ last.err = ValidationError
    /\ "RemoveAll" \in last.calls
    /\ "RemoveRepository failed" \notin last.calls
    /\ \A n \in Names : ~cache[n].exists

\* C4 as claimed: between operations, <cache>/<n> exists if and only if
\* the list has a record named n.
C4_CacheIffRegistered ==
    \A n \in Names : cache[n].exists <=> HasName(registries, n)

\* C4 amended: between the operations of one client, for every name n, if
\* the client's list has a record named n then <cache>/<n> exists; and a
\* directory <cache>/<n> without a record named n arises only in a call
\* whose removal of that directory failed.
C4_CacheTracksList ==
    [][\A n \in Names :
         /\ HasName(registries', n) => cache'[n].exists
         /\ (cache'[n].exists /\ ~HasName(registries', n))
              => \/ cache[n].exists /\ ~HasName(registries, n)
                 \/ "RemoveRepository failed" \in last'.calls]_vars

\* a directory without a record, left by a failed removal, beside a
\* registered record with its directory
C4_Witness ==
    \E n \in Names : \E m \in Names :
        /\ cache[n].exists /\ ~HasName(registries, n)
        /\ "RemoveRepository failed" \in last.calls
        /\ HasName(registries, m) /\ cache[m].exists

\* C5: AddRegistry(url, name), when a record has that url or that name,
\* returns an already-exists error without calling CloneRepository and
\* leaves the list, the registry file and the cache as they were.
C5_DuplicateAddRejected ==
    [][\A url \in URLs : \A name \in Names :
         (/\ last'.op = "AddRegistry"
          /\ HasUrl(registries, url) \/ HasName(registries, name)
          /\ AddRegistry(url, name))
         => /\ last'.err \in ExistsErrors
            /\ last'.calls = {}
            /\ registries' = registries
            /\ file' = file
            /\ cache' = cache]_vars

\* a duplicate AddRegistry was rejected
C5_Witness ==
    /\ last.op = "AddRegistry"
    /\ last.err \in ExistsErrors
    /\ Len(registries) >= 1

SyncFailures ==
    {"failed to clone registry during sync", "failed to update registry",
     "registry validation failed after sync"}

\* C6: a SyncRegistry(name) that fails at the clone, at the pull or at the
\* validation of the resulting tree (a sync of a registered name that leaves
\* a tree the validation rejects is such a call) returns an error and leaves
\* the list, its last_sync included, and the registry file as they were.
C6_FailedSyncKeepsState ==
    [][\A name \in Names :
         (/\ last'.op = "SyncRegistry"
          /\ \/ last'.err \in SyncFailures
             \/ HasName(registries, name) /\ verifyLocalRegistry(cache'[name].tree) # Ok
          /\ SyncRegistry(name))
         => /\ last'.err \in SyncFailures
            /\ registries' = registries
            /\ file' = file]_vars

\* a sync of a registered name ended at the validation, the invalid tree in
\* the cache
C6_Witness ==
    /\ last.op = "SyncRegistry"
    /\ last.err = "registry validation failed after sync"
    /\ \E n \in Names :
         /\ HasName(registries, n)
         /\ cache[n].exists
         /\ verifyLocalRegistry(cache[n].tree) # Ok

\* C7: over the operations of one client the last_sync of a record never
\* decreases, and it changes only in a SyncRegistry call of that record
\* whose clone or pull and whose validation succeeded.
C7_LastSyncMonotonic ==
    [][\A i \in 1..Len(registries) : \A j \in 1..Len(registries') :
         registries[i].name = registries'[j].name
         => /\ registries'[j].last_sync >= registries[i].last_sync
            /\ registries'[j].last_sync # registries[i].last_sync
                 => /\ SyncRegistry(registries[i].name)
                    /\ {"verifyLocalRegistry", "saveRegistries"} \subseteq last'.calls
                    /\ verifyLocalRegistry(cache'[registries[i].name].tree) = Ok]_vars

\* a sync advanced the last_sync of a record
C7_Witness ==
    /\ last.op = "SyncRegistry"
    /\ last.err = Ok
    /\ \E r \in Records(registries) : r.last_sync > r.added_at

\* C8 as claimed: RemoveRegistry(identifier) of a registered identifier
\* leaves the persisted list without the record and no <cache>/<name>.
C8_RemoveClearsListAndCache ==
    [][\A identifier \in Identifiers :
         (/\ last'.op = "RemoveRegistry"
          /\ HasName(registries, identifier) \/ HasUrl(registries, identifier)
          /\ RemoveRegistry(identifier))
         => \E i \in 1..Len(registries) :
              /\ registries[i].name = identifier \/ registries[i].url = identifier
              /\ registries[i] \notin Records(StoredList(file'))
              /\ ~cache'[registries[i].name].exists]_vars

\* C8 amended: RemoveRegistry(identifier), where identifier is the name or
\* the url of a record, removes the first such record from the client's
\* list; when it returns success the registry file holds that list, without
\* the record; and no <cache>/<name> is left for the record unless the
\* removal of the directory failed.
C8_RemoveDropsRecord ==
    [][\A identifier \in Identifiers :
         (/\ last'.op = "RemoveRegistry"
          /\ HasName(registries, identifier) \/ HasUrl(registries, identifier)
          /\ RemoveRegistry(identifier))
         => \E i \in 1..Len(registries) :
              /\ registries[i].name = identifier \/ registries[i].url = identifier
              /\ \A j \in 1..(i - 1) :
                   registries[j].name # identifier /\ registries[j].url # identifier
              /\ registries[i] \notin Records(registries')
              /\ Len(registries') = Len(registries) - 1
              /\ last'.err = Ok => file' = [state |-> "ok", data |-> MarshalIndent(registries')]
              /\ cache'[registries[i].name].exists
                   => "RemoveRepository failed" \in last'.calls]_vars

\* a RemoveRegistry succeeded, took one of two records and its directory
C8_Witness ==
    /\ last.op = "RemoveRegistry"
    /\ last.err = Ok
    /\ "RemoveAll" \in last.calls
    /\ "RemoveRepository failed" \notin last.calls
    /\ Len(registries) = 1
    /\ \E n \in Names : ~cache[n].exists /\ ~HasName(StoredList(file), n)

\* C9: RemoveRegistry(identifier), when no record has that name or url,
\* returns the not-found error, writes no registry file, and leaves the
\* client's list and the cache as they were.
C9_RemoveUnknown ==
    [][\A identifier \in Identifiers :
         (/\ last'.op = "RemoveRegistry"
          /\ ~HasName(registries, identifier) /\ ~HasUrl(registries, identifier)
          /\ RemoveRegistry(identifier))
         => /\ last'.err = "registry not found"
            /\ last'.calls = {}
            /\ registries' = registries
            /\ file' = file
            /\ cache' = cache]_vars

\* a RemoveRegistry of an unknown identifier, with a record registered
C9_Witness ==
    /\ last.op = "RemoveRegistry"
    /\ last.err = "registry not found"
    /\ Len(registries) >= 1
    /\ \E n \in Names : cache[n].exists

\* registries' is registries without its i-th record, the others in order
IsWithout(after, before, i) ==
    /\ Len(after) = Len(before) - 1
    /\ \A j \in 1..Len(after) : after[j] = (IF j < i THEN before[j] ELSE before[j + 1])

\* C10: in the client's list SyncRegistry(name) changes only the last_sync
\* of the record named name; no operation changes the added_at or the url of
\* a record; AddRegistry only appends a record and RemoveRegistry only takes
\* one out, the other records and their order unchanged.
C10_Frame ==
    [][/\ \A name \in Names :
            (last'.op = "SyncRegistry" /\ registries' # registries /\ SyncRegistry(name))
            => /\ Len(registries') = Len(registries)
               /\ \A i \in 1..Len(registries) :
                    \/ registries'[i] = registries[i]
                    \/ /\ registries[i].name = name
                       /\ registries'[i] =
                            [registries[i] EXCEPT !.last_sync = registries'[i].last_sync]
       /\ \A i \in 1..Len(registries) : \A j \in 1..Len(registries') :
            registries[i].name = registries'[j].name
            => /\ registries'[j].url = registries[i].url
               /\ registries'[j].added_at = registries[i].added_at
       /\ last'.op = "AddRegistry"
            => \/ registries' = registries
               \/ /\ Len(registries') = Len(registries) + 1
                  /\ SubSeq(registries', 1, Len(registries)) = registries
       /\ last'.op = "RemoveRegistry"
            => \/ registries' = registries
               \/ \E i \in 1..Len(registries) : IsWithout(registries', registries, i)]_vars

\* a sync of one of two records advanced its last_sync
C10_Witness ==
    /\ last.op = "SyncRegistry"
    /\ last.err = Ok
    /\ Len(registries) = 2
    /\ \E r \in Records(registries) : r.last_sync > r.added_at

\* C11: every step leaves the registry file as it was or holding the whole
\* list of the client after the step: no operation, failed writes included,
\* leaves an empty, truncated or partial file.
C11_WriteIsAtomic ==
    [][\/ file' = file
       \/ file' = [state |-> "ok", data |-> MarshalIndent(registries')]]_vars

\* C12: a new client constructed right after a saveRegistries that returned
\* success holds the list that was saved: the same (name, url, added_at,
\* last_sync) records in the same order.
C12_RoundTrip ==
    [][(last.op = "saveRegistries" /\ last.err = Ok /\ NewClient)
       => registries' = registries]_vars

\* C13: an AddRegistry(url, name) that returns success leaves in the
\* registry file the list of its own client and nothing else: a record with
\* another name and url that the file held and this client had not loaded
\* is no longer in the file.
C13_LastWriterWins ==
    [][\A url \in URLs : \A name \in Names :
         (/\ last'.op = "AddRegistry"
          /\ last'.err = Ok
          /\ AddRegistry(url, name))
         => /\ StoredList(file') = registries'
            /\ \A r \in Records(StoredList(file)) \ Records(registries) :
                 (r.name # name /\ r.url # url) => r \notin Records(StoredList(file'))]_vars

\* no operation has failed: both processes started from the empty list,
\* the AddRegistry of each returned success (the other's record differs in
\* name and url), and the file holds only the record of the later writer
C13_Witness ==
    /\ faults = 0
    /\ last.op = "AddRegistry"
    /\ last.err = Ok
    /\ Len(registries) = 1
    /\ Len(other) = 1
    /\ other[1].name # registries[1].name
    /\ other[1].url # registries[1].url
    /\ cache[other[1].name].exists
    /\ StoredList(file) = registries
    /\ other[1] \notin Records(StoredList(file))

\* C14: an AddRegistry(url, name) reaches CloneRepository only with a url
\* that URL validation accepts (ValidateURL accepts no url that
\* validateURLFormat rejects): a url that fails validation is never cloned.
C14_CloneOnlyValidatedURL ==
    [][\A url \in URLs : \A name \in Names :
         (/\ last'.op = "AddRegistry"
          /\ "CloneRepository" \in last'.calls
          /\ AddRegistry(url, name))
         => validateURLFormat(url) = Ok]_vars

\* C15: GetRegistryIndex(name) invokes no clone, no pull and no write of the
\* registry file and leaves the client's list, the registry file and the
\* cache as they were, whether it succeeds or fails; it fails with not-found
\* exactly when no record is named name.
C15_IndexIsPureRead ==
    [][\A name \in Names :
         (last'.op = "GetRegistryIndex" /\ GetRegistryIndex(name))
         => /\ registries' = registries
            /\ file' = file
            /\ cache' = cache
            /\ last'.calls \cap {"CloneRepository", "clone", "pull", "saveRegistries"} = {}
            /\ last'.err = "registry not found" <=> ~HasName(registries, name)]_vars

\* the index of a registered registry was asked for and could not be read
C15_Witness ==
    /\ last.op = "GetRegistryIndex"
    /\ last.err = "failed to read registry index"
    /\ \E r \in Records(registries) : cache[r.name].exists

\* C16: a CloneRepository(url, name), as AddRegistry calls it, clones
\* exactly when IsRepositoryCloned(name) is false and pulls exactly when it
\* is true; a SyncRegistry(name) of a registered name for which
\* IsRepositoryCloned(name) is false clones and does not pull.
C16_CloneIffNotCloned ==
    [][/\ \A url \in URLs : \A name \in Names :
            (/\ last'.op = "AddRegistry"
             /\ "CloneRepository" \in last'.calls
             /\ AddRegistry(url, name))
            => /\ "clone" \in last'.calls <=> ~IsRepositoryCloned(cache, name)
               /\ "pull" \in last'.calls <=> IsRepositoryCloned(cache, name)
       /\ \A name \in Names :
            (/\ last'.op = "SyncRegistry"
             /\ HasName(registries, name)
             /\ ~IsRepositoryCloned(cache, name)
             /\ SyncRegistry(name))
            => "clone" \in last'.calls /\ "pull" \notin last'.calls]_vars

\* C17: GetRepositoryInfo(name) returns no error, for every name and every
\* state of the cache.
C17_InfoNeverFails == last.op = "GetRepositoryInfo" => last.err = Ok

\* C18: a RemoveRepository(name) returns an error and leaves the cache as
\* it was when IsRepositoryCloned(name) is false; when it returns success
\* IsRepositoryCloned(name) is false afterwards, and every outcome of a
\* second RemoveRepository(name) is an error with the cache unchanged.
C18_RemoveRepository ==
    [][\A name \in Names :
         (last'.op = "RemoveRepository" /\ CallRemoveRepository(name))
         => /\ ~IsRepositoryCloned(cache, name) => (last'.err # Ok /\ cache' = cache)
            /\ last'.err = Ok
                 => /\ ~IsRepositoryCloned(cache', name)
                    /\ \A o \in RemoveRepository(cache', name) :
                         o.err # Ok /\ o.cache = cache']_vars

\* a RemoveRepository deleted the only directory of the cache
C18_Witness ==
    /\ last.op = "RemoveRepository"
    /\ last.err = Ok
    /\ "RemoveAll" \in last.calls
    /\ \A n \in Names : ~cache[n].exists

\* C19: checkHTTPSAccessibility probes the endpoints of buildGitEndpoints in
\* their order; it goes on only after a response that is not 200, 301, 302
\* or 401 and stops at the first that is, returning success; it returns an
\* error exactly when every endpoint was probed and none gave one of these,
\* and the error then carries the reason of the last endpoint, which for 404
\* and for 403 are two different reasons.
C19_FirstAcceptedProbeWins ==
    last.op = "checkHTTPSAccessibility"
    => LET endpoints == buildGitEndpoints(last.arg)
           n == Len(last.probes)
       IN  /\ n <= Len(endpoints)
           /\ \A i \in 1..n : last.probes[i].endpoint = endpoints[i]
           /\ \A i \in 1..(n - 1) : last.probes[i].response \notin {200, 301, 302, 401}
           /\ last.pc = "loop"
                => /\ last.err = Ok
                   /\ \A i \in 1..n : last.probes[i].response \notin {200, 301, 302, 401}
           /\ last.pc = "done"
                => /\ n >= 1
                   /\ last.err = Ok <=> last.probes[n].response \in {200, 301, 302, 401}
                   /\ last.err # Ok
                        => /\ n = Len(endpoints)
                           /\ last.lastErr # Ok
                           /\ last.probes[n].response = 404
                                <=> last.lastErr = "repository not found (404)"
                           /\ last.probes[n].response = 403
                                <=> last.lastErr
                                      = "access forbidden (403) - repository may be private"

\* the call stopped at the second of five endpoints: 404, then 401
C19_Witness ==
    /\ last.op = "checkHTTPSAccessibility"
    /\ last.pc = "done"
    /\ last.err = Ok
    /\ Len(last.probes) = 2
    /\ Len(buildGitEndpoints(last.arg)) = 5
    /\ last.probes[1].response = 404
    /\ last.probes[2].response = 401

\* git@<host>:<path>, host and path not empty
IsSSHShorthand(rawURL) ==
    /\ HasPrefix(rawURL, <<"g", "i", "t", "@">>)
    /\ \E colon \in 6..(Len(rawURL) - 1) :
         /\ rawURL[colon] = ":"
         /\ \A i \in 5..(colon - 1) : rawURL[i] \notin {":", "/"}

\* C20: validateURLFormat accepts every url git@<host>:<path> with host and
\* path not empty, and rejects git@github.com/user/repo.
C20_SSHShorthandAccepted ==
    last.op = "validateURLFormat"
    => /\ IsSSHShorthand(last.arg) => last.err = Ok
       /\ last.arg = SSHSlashURL => last.err # Ok

\* C21: validateURLFormat answers a url without a scheme with the reason that
\* a scheme is required, and a url whose scheme is not https and that is not
\* the SSH shorthand (ftp, http, ssh, git and the like) with the reason that
\* the scheme is unsupported.
C21_SchemeReasons ==
    last.op = "validateURLFormat"
    => /\ (/\ getScheme(last.arg).err = Ok
           /\ getScheme(last.arg).scheme = <<>>
           /\ ~IsSSHShorthand(last.arg))
            => last.err = "URL must include a scheme (https:// or git@)"
       /\ (/\ getScheme(last.arg).err = Ok
           /\ ToLower(getScheme(last.arg).scheme) \notin {<<>>, <<"h", "t", "t", "p", "s">>})
            => last.err = "unsupported URL scheme"

\* the host names none of the three hosting services the validator knows
IsGenericHost(host) ==
    /\ host # <<>>
    /\ ~Contains(host, <<"g", "i", "t", "h", "u", "b", ".", "c", "o", "m">>)
    /\ ~Contains(host, <<"g", "i", "t", "l", "a", "b">>)
    /\ ~Contains(host, <<"b", "i", "t", "b", "u", "c", "k", "e", "t", ".", "o", "r", "g">>)

\* the segments of a path without its trailing slash and its trailing .git
PathSegments(path) == Split(TrimSlashes(TrimSuffix(TrimSuffix(path, <<"/">>), DotGit)))

\* C22: validateURLFormat passes every https url of a host that is not one of
\* the well-known services whose path, without its trailing slash and its
\* trailing .git, has a segment that is not empty; one segment is enough, as
\* in https://git.example.com/repo.
C22_GenericHostOneSegment ==
    (/\ last.op = "validateURLFormat"
     /\ Parse(last.arg).err = Ok
     /\ Parse(last.arg).Scheme = <<"h", "t", "t", "p", "s">>
     /\ IsGenericHost(Parse(last.arg).Host)
     /\ \E i \in 1..Len(PathSegments(Parse(last.arg).Path)) :
          PathSegments(Parse(last.arg).Path)[i] # <<>>)
    => last.err = Ok

\* C23: validateURLFormat passes an https url of GitHub, GitLab or Bitbucket
\* only if its path has two segments, owner and repository, and the owner and
\* the repository without its .git both match [A-Za-z0-9._-]+.
C23_KnownHostShape ==
    (/\ last.op = "validateURLFormat"
     /\ last.err = Ok
     /\ Parse(last.arg).Scheme = <<"h", "t", "t", "p", "s">>
     /\ Parse(last.arg).Host # <<>>
     /\ ~IsGenericHost(Parse(last.arg).Host))
    => LET pathParts == Split(TrimSlashes(TrimSuffix(Parse(last.arg).Path, <<"/">>)))
       IN  /\ Len(pathParts) >= 2
           /\ IsValidName(pathParts[1])
           /\ IsValidName(TrimSuffix(pathParts[Len(pathParts)], DotGit))

\* C24: ValidateStructure validates the index manifest, then the modules,
\* then the directory shape, and returns the error of the first check that
\* fails without running the later ones: a missing index.json gives the
\* not-found reason, the version "1.0" the invalid-version-format reason also
\* when there is no module, an empty module map the at-least-one-module
\* reason, a module under a key other than its name the name-mismatch reason.
C24_FailFastOrder ==
    last.op = "ValidateStructure"
    => LET tree == last.arg
           indexValid == /\ tree.index = "ok"
                         /\ tree.name = <<"r", "e", "g">>
                         /\ tree.description = <<"d">>
                         /\ tree.version = <<"1", ".", "0", ".", "0">>
       IN  /\ validateIndexJSON(tree) # Ok
                => last.err = validateIndexJSON(tree) /\ last.calls = {"validateIndexJSON"}
           /\ validateIndexJSON(tree) = Ok /\ validateModules(tree) # Ok
                => /\ last.err = validateModules(tree)
                   /\ last.calls = {"validateIndexJSON", "validateModules"}
           /\ validateIndexJSON(tree) = Ok /\ validateModules(tree) = Ok
                => /\ last.err = validateDirectoryStructure(tree)
                   /\ "validateDirectoryStructure" \in last.calls
           /\ tree.index = "missing" => last.err = "index.json not found"
           /\ (/\ tree.index = "ok"
               /\ tree.name = <<"r", "e", "g">>
               /\ tree.description = <<"d">>
               /\ tree.version = <<"1", ".", "0">>)
                => last.err = "invalid version format"
           /\ indexValid /\ tree.modules = EmptyModules
                => last.err = "registry must contain at least one module"
           /\ indexValid /\ tree.modules = MismatchModules
                => last.err = "module name does not match key"

\* the validator was given version "1.0" and no module, and answered with the
\* version
C24_Witness ==
    /\ last.op = "ValidateStructure"
    /\ last.arg.index = "ok"
    /\ last.arg.version = <<"1", ".", "0">>
    /\ last.arg.modules = EmptyModules
    /\ last.err = "invalid version format"
    /\ last.calls = {"validateIndexJSON"}

\* C26: when the removal of the cache directory fails in a RemoveRegistry of
\* a registered identifier, the record is removed from the list all the same,
\* the list is persisted and RemoveRegistry returns success.
C26_CacheFailureIgnored ==
    [][\A identifier \in Identifiers :
         (/\ last'.op = "RemoveRegistry"
          /\ "RemoveRepository failed" \in last'.calls
          /\ RemoveRegistry(identifier))
         => /\ registries' = RemoveAt(registries, RemoveIndex(registries, identifier))
            /\ file' = [state |-> "ok", data |-> MarshalIndent(registries')]
            /\ last'.err = Ok]_vars

\* C26, amended: when the removal of the cache directory fails in a
\* RemoveRegistry of a registered identifier, the record is removed from the
\* client's list all the same and the list is written; RemoveRegistry returns
\* what that write returns: success with the file holding the list, or the
\* write error.
C26_CacheFailureThenSave ==
    [][\A identifier \in Identifiers :
         (/\ last'.op = "RemoveRegistry"
          /\ "RemoveRepository failed" \in last'.calls
          /\ RemoveRegistry(identifier))
         => /\ RemoveIndex(registries, identifier) # 0
            /\ registries' = RemoveAt(registries, RemoveIndex(registries, identifier))
            /\ Len(registries') = Len(registries) - 1
            /\ "saveRegistries" \in last'.calls
            /\ last'.err \in {Ok, "failed to write registries file"}
            /\ last'.err = Ok
                 => file' = [state |-> "ok", data |-> MarshalIndent(registries')]]_vars

\* a RemoveRegistry whose os.RemoveAll failed returned success: the record is
\* gone from the list and from the file, the directory is still there
C26_Witness ==
    /\ last.op = "RemoveRegistry"
    /\ last.err = Ok
    /\ {"RemoveRepository failed", "RemoveAll"} \subseteq last.calls
    /\ registries = <<>>
    /\ file = [state |-> "ok", data |-> MarshalIndent(<<>>)]
    /\ \E n \in Names : cache[n].exists

\* C25: validateModuleJSON accepts a module.json only if it is a JSON object
\* in which name, description and type are present with string values and
\* type is, whatever its case, one of aliases, functions, exports, scripts,
\* config.
C25_ManifestFields ==
    last.op = "validateModuleJSON" /\ last.err = Ok
    => /\ last.arg.manifest = "ok"
       /\ last.arg.name.kind = "string"
       /\ last.arg.description.kind = "string"
       /\ last.arg.type.kind = "string"
       /\ ToLower(last.arg.type.val)
            \in {<<"a", "l", "i", "a", "s", "e", "s">>,
                 <<"f", "u", "n", "c", "t", "i", "o", "n", "s">>,
                 <<"e", "x", "p", "o", "r", "t", "s">>,
                 <<"s", "c", "r", "i", "p", "t", "s">>,
                 <<"c", "o", "n", "f", "i", "g">>}

\* the record of the list that ListModulesByRegistry looks for
Registered(identifier) ==
    {i \in 1..Len(registries) :
       /\ registries[i].name = identifier \/ registries[i].url = identifier
       /\ \A j \in 1..(i - 1) :
            registries[j].name # identifier /\ registries[j].url # identifier}

\* every module of the index cached for reg is in result, tagged with reg
ListsModulesOf(result, reg) ==
    \A k \in DOMAIN cache[reg.name].tree.modules :
      \E j \in 1..Len(result) :
        result[j] = ModuleInfo(cache[reg.name].tree.modules[k], reg)

\* C27: for every registered registry whose cached index.json is readable,
\* ListAllModules lists each module of that index with the name and the url
\* of the registry, and ListModulesByRegistry(identifier) returns the modules
\* of the registry when identifier is its name or its url.
C27_ModulesListed ==
    /\ last.op = "ListAllModules"
         => \A i \in 1..Len(registries) :
              cache[registries[i].name].tree.index = "ok"
                => ListsModulesOf(last.result, registries[i])
    /\ last.op = "ListModulesByRegistry"
         => \A i \in Registered(last.arg) :
              cache[registries[i].name].tree.index = "ok"
                => /\ last.err = Ok
                   /\ ListsModulesOf(last.result, registries[i])
                   /\ Len(last.result) = Cardinality(DOMAIN cache[registries[i].name].tree.modules)

\* C28: whenever AddRegistry, RemoveRegistry or SyncRegistry returns an
\* error, an error of the write of the registry file included, the list that
\* ListRegistries returns is the list it returned before the call and is the
\* list held in the registry file.
C28_ErrorLeavesList ==
    [][(/\ last'.op \in {"AddRegistry", "RemoveRegistry", "SyncRegistry"}
        /\ last'.err # Ok)
       => /\ ListRegistries' = ListRegistries
          /\ ListRegistries' = StoredList(file')]_vars

\* C29: after AddRegistry(url, name) returned success the tree at
\* <cache>/<name> is a clone of url, also when a directory <cache>/<name> that
\* an earlier operation for another url left behind was there when the call
\* started.
C29_AddedTreeIsCloneOfUrl ==
    last.op = "AddRegistry" /\ last.err = Ok
    => LET reg == registries[Len(registries)]
       IN  /\ cache[reg.name].exists
           /\ cache[reg.name].git
           /\ cache[reg.name].origin = reg.url

\* C30: after RemoveRegistry(identifier) returned success no record left in
\* the list has identifier for its name or for its url, on every list that
\* AddRegistry calls can build (the name of one record can be the url of
\* another).
C30_RemovedIdentifierGone ==
    [][\A identifier \in Identifiers :
         (/\ last'.op = "RemoveRegistry"
          /\ last'.err = Ok
          /\ RemoveRegistry(identifier))
         => \A i \in 1..Len(registries') :
              registries'[i].name # identifier /\ registries'[i].url # identifier]_vars

====
